---- MODULE Spec2Model ----
(***************************************************************************)
(* discord/message.py: class Message.                                      *)
(*                                                                         *)
(* A Message is hydrated from a gateway payload by _update (also called by *)
(* __init__), which resolves channel, server, author and the mention       *)
(* lists, and it offers four memoized accessors (raw_mentions,             *)
(* raw_channel_mentions, raw_role_mentions, clean_content).                *)
(*                                                                         *)
(* Text is a sequence of characters (one-character strings; "zwsp" stands  *)
(* for U+200B).  None is the empty sequence << >> and a present optional   *)
(* value v is << v >>; an unset cache slot is << >> likewise.              *)
(* The attributes tts, mention_everyone, embeds, id, nonce and attachments *)
(* are plain copies of payload fields that nothing else reads; they are    *)
(* left out.                                                               *)
(*                                                                         *)
(* self is the object.  data, last and ret record the calls made on it:    *)
(* the payload of the latest _update that returned, the latest call, and   *)
(* the value the latest accessor read returned.                            *)
(***************************************************************************)
EXTENDS Naturals, Integers, Sequences, FiniteSets, TLC

VARIABLES
    self,   \* the Message object: its __slots__ (message.py:95-99)
    data,   \* the payload of the most recent _update call that returned
    last,   \* the most recent call on the object
    ret     \* what the most recent accessor read returned, << >> otherwise

vars == <<self, data, last, ret>>

None == << >>
Some(v) == << v >>

(***************************************************************************)
(* Bounds of the model.                                                    *)
(***************************************************************************)
\* longest content, in tokens of the content alphabets below
MaxToks == 2
\* longest payload "mentions" / "mention_roles" list
MaxMentions == 2

(***************************************************************************)
(* Characters and text.                                                    *)
(***************************************************************************)
Digits == {"0", "1", "2", "3", "4", "5", "6", "7", "8", "9"}

Letters == {"a", "b", "c", "d", "e", "f", "g", "h", "i", "j", "k", "l", "m",
            "n", "o", "p", "q", "r", "s", "t", "u", "v", "w", "x", "y", "z"}

ZWSP == "zwsp"

everyone == <<"e", "v", "e", "r", "y", "o", "n", "e">>
here == <<"h", "e", "r", "e">>

RECURSIVE Flatten(_)
Flatten(ss) == IF ss = << >> THEN << >> ELSE Head(ss) \o Flatten(Tail(ss))

\* the literal lit stands in s at index i
StartsAt(s, i, lit) ==
    /\ i + Len(lit) - 1 <= Len(s)
    /\ \A k \in 1..Len(lit) : s[i + k - 1] = lit[k]

\* [0-9]+ is greedy: the first index from j on that holds no digit
RECURSIVE DigitsEnd(_, _)
DigitsEnd(s, j) ==
    IF j <= Len(s) /\ s[j] \in Digits THEN DigitsEnd(s, j + 1) ELSE j

\* one attempt of  open !? ([0-9]+) >  (the "!" only where bang) at index i
MarkerAt(s, i, open, bang) ==
    LET j0 == i + Len(open)
        j  == IF bang /\ j0 <= Len(s) /\ s[j0] = "!" THEN j0 + 1 ELSE j0
        k  == DigitsEnd(s, j)
        ok == StartsAt(s, i, open) /\ k > j /\ k <= Len(s) /\ s[k] = ">"
    IN  [ok |-> ok, end |-> k, group |-> IF ok THEN SubSeq(s, j, k - 1) ELSE << >>]

\* re.findall: the groups of the non-overlapping matches, left to right
RECURSIVE FindAllFrom(_, _, _, _)
FindAllFrom(s, i, open, bang) ==
    IF i > Len(s) THEN << >>
    ELSE LET m == MarkerAt(s, i, open, bang)
         IN  IF m.ok THEN <<m.group>> \o FindAllFrom(s, m.end + 1, open, bang)
             ELSE FindAllFrom(s, i + 1, open, bang)

FindAll(s, open, bang) == FindAllFrom(s, 1, open, bang)

\* re.escape (Python 3.3-3.6): a backslash before every non-alphanumeric.
\* (Later versions escape fewer characters; clean_content applies the same
\* re.escape to the keys and to the match it looks up.)
EscapeChar(c) == IF c \in Digits \cup Letters \cup {"_"} THEN <<c>> ELSE <<"\\", c>>

RECURSIVE re_escape(_)
re_escape(s) == IF s = << >> THEN << >> ELSE EscapeChar(Head(s)) \o re_escape(Tail(s))

\* the compiled pattern pat (literals and escaped literals), from pat[j] on,
\* matched against s at index i: the index after the match, 0 when none
RECURSIVE MatchFrom(_, _, _, _)
MatchFrom(pat, j, s, i) ==
    IF j > Len(pat) THEN i
    ELSE LET esc == pat[j] = "\\" /\ j < Len(pat)
             c   == IF esc THEN pat[j + 1] ELSE pat[j]
         IN  IF i <= Len(s) /\ s[i] = c
             THEN MatchFrom(pat, IF esc THEN j + 2 ELSE j + 1, s, i + 1)
             ELSE 0

\* an alternation k1|k2|...: the first alternative, in order, that matches
\* at i; [alt |-> 0] when none does
RECURSIVE FirstAlt(_, _, _, _)
FirstAlt(alts, n, s, i) ==
    IF n > Len(alts) THEN [alt |-> 0, end |-> 0]
    ELSE LET e == MatchFrom(alts[n], 1, s, i)
         IN  IF e # 0 THEN [alt |-> n, end |-> e] ELSE FirstAlt(alts, n + 1, s, i)

\* '|'.join(keys) compiled: the alternatives; of no keys, the empty pattern
Alternatives(keys) == IF keys = << >> THEN << << >> >> ELSE keys

(***************************************************************************)
(* dict, as the insertion-ordered sequence of <<key, value>> pairs.  (The   *)
(* keys clean_content joins into a pattern are literals that end at their  *)
(* only ">", so none is a prefix of another and the order of the           *)
(* alternatives decides nothing.)                                          *)
(***************************************************************************)
DictHas(d, k) == \E n \in 1..Len(d) : d[n][1] = k

DictGet(d, k, default) ==
    IF DictHas(d, k) THEN d[CHOOSE n \in 1..Len(d) : d[n][1] = k][2] ELSE default

DictSet(d, k, v) ==
    IF DictHas(d, k) THEN [n \in 1..Len(d) |-> IF d[n][1] = k THEN <<k, v>> ELSE d[n]]
    ELSE Append(d, <<k, v>>)

RECURSIVE DictUpdate(_, _)
DictUpdate(d, other) ==
    IF other = << >> THEN d
    ELSE DictUpdate(DictSet(d, Head(other)[1], Head(other)[2]), Tail(other))

DictKeys(d) == [n \in 1..Len(d) |-> d[n][1]]

\* pattern.sub(repl, s) from index i on.  A match of the empty pattern is
\* replaced too and the character after it copied.  repl looks the match
\* up in table, by re.escape of it where esc (repl) or as it is (repl2).
RECURSIVE SubFrom(_, _, _, _, _)
SubFrom(alts, table, esc, s, i) ==
    IF i > Len(s) + 1 THEN << >>
    ELSE LET m    == FirstAlt(alts, 1, s, i)
             g    == SubSeq(s, i, m.end - 1)
             out  == DictGet(table, IF esc THEN re_escape(g) ELSE g, << >>)
             char == IF i <= Len(s) THEN <<s[i]>> ELSE << >>
         IN  IF m.alt = 0 THEN char \o SubFrom(alts, table, esc, s, i + 1)
             ELSE IF m.end = i THEN out \o char \o SubFrom(alts, table, esc, s, i + 1)
             ELSE out \o SubFrom(alts, table, esc, s, m.end)

(***************************************************************************)
(* The collaborators: one server with its roster, and the channels a       *)
(* caller can hand in.  Ids are digit strings.                             *)
(***************************************************************************)
Id1 == <<"1">>
Id2 == <<"2">>
\* an id the roster does not hold
Id12 == <<"1", "2">>

Member(id, display_name) == [kind |-> "Member", id |-> id, display_name |-> display_name]
User(fragment) == [kind |-> "User", id |-> fragment.id, display_name |-> fragment.username]
Role(id, name) == [id |-> id, name |-> name]
Channel(id, name) == [kind |-> "Channel", id |-> id, name |-> name, is_private |-> FALSE]
PrivateChannel(id) == [kind |-> "PrivateChannel", id |-> id, name |-> << >>, is_private |-> TRUE]
\* Object(id=channel_id) with is_private set (message.py:241-242)
Object(id) == [kind |-> "Object", id |-> id, name |-> << >>, is_private |-> TRUE]

Server ==
    [members  |-> << Member(Id1, everyone), Member(Id2, <<"<", "#", "1", ">">>) >>,
     channels |-> << Channel(Id1, <<"g", "e", "n">>), Channel(Id2, <<"d", "e", "v">>) >>,
     roles    |-> << Role(Id1, here), Role(Id2, <<"m", "o", "d">>) >>]

\* the first element of seq whose id is id, or None
FindById(seq, id) ==
    IF \E n \in 1..Len(seq) : seq[n].id = id
    THEN Some(seq[CHOOSE n \in 1..Len(seq) : seq[n].id = id /\ \A k \in 1..(n - 1) : seq[k].id # id])
    ELSE None

get_member(server, id) == FindById(server.members, id)
get_channel(server, id) == FindById(server.channels, id)
utils_get(roles, id) == FindById(roles, id)

\* channel.server of a server channel
ChannelServer(channel) == Server

\* utils.parse_time: None for an absent value, the naive datetime of a
\* well-formed one (with or without the fraction), an exception otherwise
TimeTable ==
    [t \in {"2015-08-21T12:03:45.782000+00:00", "2015-08-21T12:03:46+00:00"} |->
        IF t = "2015-08-21T12:03:45.782000+00:00"
        THEN <<2015, 8, 21, 12, 3, 45, 782000>>
        ELSE <<2015, 8, 21, 12, 3, 46>>]

parse_time(timestamp) ==
    IF timestamp = None THEN [raised |-> FALSE, value |-> None]
    ELSE IF timestamp[1] \in DOMAIN TimeTable
         THEN [raised |-> FALSE, value |-> Some(TimeTable[timestamp[1]])]
         ELSE [raised |-> TRUE, value |-> None]

\* utils.cached_slot_property: the slot's value when the slot is set, else
\* the computed value, which is stored in the slot
CachedSlot(m, slot, value) ==
    IF m[slot] # None THEN [value |-> m[slot][1], self |-> m]
    ELSE [value |-> value, self |-> [m EXCEPT ![slot] = Some(value)]]

(***************************************************************************)
(* Message                                                                 *)
(***************************************************************************)
\* a Message object before __init__ has assigned any slot
Blank ==
    [edited_timestamp |-> None, timestamp |-> None, content |-> << >>,
     channel |-> None, author |-> None, server |-> None,
     mentions |-> << >>, channel_mentions |-> << >>, role_mentions |-> << >>,
     _raw_mentions |-> None, _raw_channel_mentions |-> None,
     _raw_role_mentions |-> None, _clean_content |-> None]

IsPrivate(channel) == IF channel = None THEN TRUE ELSE channel[1].is_private

raw_mentions(m) ==
    CachedSlot(m, "_raw_mentions", FindAll(m.content, <<"<", "@">>, TRUE))

raw_channel_mentions(m) ==
    CachedSlot(m, "_raw_channel_mentions", FindAll(m.content, <<"<", "#">>, FALSE))

raw_role_mentions(m) ==
    CachedSlot(m, "_raw_role_mentions", FindAll(m.content, <<"<", "@", "&">>, FALSE))

\* the author is looked up in the roster whatever the channel is
_handle_upgrades_IgnoresPrivacy(m, channel_id) ==
    LET m1    == [m EXCEPT !.server = None]
        found == get_member(Server, m1.author[1].id)
        m2    == [m1 EXCEPT !.author = IF found # None THEN found ELSE @]
    IN  IF m2.channel # None /\ m2.channel[1].kind = "Object" THEN m2
        ELSE IF m2.channel = None
        THEN IF channel_id # None
             THEN [m2 EXCEPT !.channel = Some(Object(channel_id[1]))]
             ELSE m2
        ELSE IF ~m2.channel[1].is_private
        THEN [m2 EXCEPT !.server = Some(ChannelServer(m2.channel[1]))]
        ELSE m2

_handle_upgrades(m, channel_id) ==
    LET m1 == [m EXCEPT !.server = None]
    IN  IF m1.channel # None /\ m1.channel[1].kind = "Object" THEN m1
        ELSE IF m1.channel = None
        THEN IF channel_id # None
             THEN [m1 EXCEPT !.channel = Some(Object(channel_id[1]))]
             ELSE m1
        ELSE IF ~m1.channel[1].is_private
        THEN LET server == ChannelServer(m1.channel[1])
                 found  == get_member(server, m1.author[1].id)
             IN  [m1 EXCEPT !.server = Some(server),
                            !.author = IF found # None THEN found ELSE @]
        ELSE m1

\* for mention in mentions: append the member that get_member finds
RECURSIVE AppendMembers(_, _, _)
AppendMembers(acc, server, mentions) ==
    IF mentions = << >> THEN acc
    ELSE LET member == get_member(server, Head(mentions).id)
         IN  AppendMembers(IF member # None THEN Append(acc, member[1]) ELSE acc,
                           server, Tail(mentions))

RECURSIVE AppendChannels(_, _, _)
AppendChannels(acc, server, ids) ==
    IF ids = << >> THEN acc
    ELSE LET channel == get_channel(server, Head(ids))
         IN  AppendChannels(IF channel # None THEN Append(acc, channel[1]) ELSE acc,
                            server, Tail(ids))

\* a role already in the list is not appended again
RECURSIVE AppendRoles_Dedup(_, _, _)
AppendRoles_Dedup(acc, server, ids) ==
    IF ids = << >> THEN acc
    ELSE LET role == utils_get(server.roles, Head(ids))
             seen == role # None /\ \E n \in 1..Len(acc) : acc[n] = role[1]
         IN  AppendRoles_Dedup(IF role # None /\ ~seen THEN Append(acc, role[1]) ELSE acc,
                               server, Tail(ids))

RECURSIVE AppendRoles(_, _, _)
AppendRoles(acc, server, ids) ==
    IF ids = << >> THEN acc
    ELSE LET role == utils_get(server.roles, Head(ids))
         IN  AppendRoles(IF role # None THEN Append(acc, role[1]) ELSE acc,
                         server, Tail(ids))

\* the lists are not emptied first
ResetMentions_Keeps(m) == m

ResetMentions(m) ==
    [m EXCEPT !.mentions = << >>, !.channel_mentions = << >>, !.role_mentions = << >>]

_handle_mentions(m, mentions, role_mentions) ==
    LET m1 == ResetMentions(m)
    IN  IF IsPrivate(m1.channel) THEN m1
        ELSE LET m2 == IF m1.channel # None
                       THEN [m1 EXCEPT !.mentions = AppendMembers(@, m1.server[1], mentions)]
                       ELSE m1
             IN  IF m2.server # None
                 THEN LET raw == raw_channel_mentions(m2)
                      IN  [raw.self EXCEPT
                              !.channel_mentions = AppendChannels(@, m2.server[1], raw.value),
                              !.role_mentions = AppendRoles(@, m2.server[1], role_mentions)]
                 ELSE m2

\* the slot list misses '_clean_content'
ClearCached_SkipsCleanContent(m) ==
    [m EXCEPT !._raw_mentions = None, !._raw_channel_mentions = None,
              !._raw_role_mentions = None]

\* delattr of every slot whose name starts with "_" (message.py:124-129)
ClearCached(m) ==
    [m EXCEPT !._raw_mentions = None, !._clean_content = None,
              !._raw_channel_mentions = None, !._raw_role_mentions = None]

\* _update(**data): the object it leaves, and whether it raised.  A
\* parse_time that raises leaves the assignments made before it.
_update(m, p) ==
    LET edited == parse_time(p.edited_timestamp)
        m1     == [m EXCEPT !.edited_timestamp = edited.value]
        stamp  == parse_time(p.timestamp)
        m2     == [m1 EXCEPT !.timestamp = stamp.value,
                             !.content = p.content,
                             !.channel = p.channel,
                             !.author = Some(User(p.author))]
        m3     == _handle_upgrades(m2, p.channel_id)
        m4     == _handle_mentions(m3, p.mentions, p.mention_roles)
    IN  IF edited.raised THEN [raised |-> TRUE, self |-> m]
        ELSE IF stamp.raised THEN [raised |-> TRUE, self |-> m1]
        ELSE [raised |-> FALSE, self |-> ClearCached(m4)]

\* a dict comprehension over a list: the <<key, value>> pairs in list order
ChannelPairs(channels) ==
    [n \in 1..Len(channels) |->
        <<re_escape(<<"<", "#">> \o channels[n].id \o <<">">>), <<"#">> \o channels[n].name>>]

MemberPairs(members) ==
    [n \in 1..Len(members) |->
        <<re_escape(<<"<", "@">> \o members[n].id \o <<">">>),
          <<"@">> \o members[n].display_name>>]

\* the <@!user_id> cases are not added
NickPairs_None(members) == << >>

NickPairs(members) ==
    [n \in 1..Len(members) |->
        <<re_escape(<<"<", "@", "!">> \o members[n].id \o <<">">>),
          <<"@">> \o members[n].display_name>>]

RolePairs(roles) ==
    [n \in 1..Len(roles) |->
        <<re_escape(<<"<", "@", "&">> \o roles[n].id \o <<">">>), <<"@">> \o roles[n].name>>]

\* the mapping of clean_content's first pass (message.py:191-215)
Transformations(m) ==
    LET transformations           == DictUpdate(<< >>, ChannelPairs(m.channel_mentions))
        mention_transforms        == DictUpdate(<< >>, MemberPairs(m.mentions))
        second_mention_transforms == DictUpdate(<< >>, NickPairs(m.mentions))
        merged == DictUpdate(DictUpdate(transformations, mention_transforms),
                             second_mention_transforms)
    IN  IF m.server # None
        THEN DictUpdate(merged, DictUpdate(<< >>, RolePairs(m.role_mentions)))
        ELSE merged

\* the mapping of the second pass (message.py:223-226)
Broadcasts ==
    << << <<"@">> \o everyone, <<"@", ZWSP>> \o everyone >>,
       << <<"@">> \o here, <<"@", ZWSP>> \o here >> >>

\* the pattern matches any marker, and repl gives '' for one not in the
\* mapping
RECURSIVE StripFrom(_, _, _)
StripFrom(table, s, i) ==
    IF i > Len(s) THEN << >>
    ELSE LET user    == MarkerAt(s, i, <<"<", "@">>, TRUE)
             role    == MarkerAt(s, i, <<"<", "@", "&">>, FALSE)
             channel == MarkerAt(s, i, <<"<", "#">>, FALSE)
             m       == IF user.ok THEN user ELSE IF role.ok THEN role ELSE channel
         IN  IF m.ok
             THEN DictGet(table, re_escape(SubSeq(s, i, m.end)), << >>)
                      \o StripFrom(table, s, m.end + 1)
             ELSE <<s[i]>> \o StripFrom(table, s, i + 1)

MentionPass_StripsUnknown(m) == StripFrom(Transformations(m), m.content, 1)

\* pattern.sub(repl, self.content) (message.py:217-221)
MentionPass(m) ==
    LET transformations == Transformations(m)
    IN  SubFrom(Alternatives(DictKeys(transformations)), transformations, TRUE, m.content, 1)

\* pattern.sub(repl2, result) (message.py:228-232)
BroadcastPass(m, result) ==
    SubFrom(Alternatives(DictKeys(Broadcasts)), Broadcasts, FALSE, result, 1)

\* the broadcast pass runs before the mention pass
CleanContent_BroadcastFirst(m) ==
    MentionPass([m EXCEPT !.content = BroadcastPass(m, m.content)])

CleanContent(m) == BroadcastPass(m, MentionPass(m))

clean_content(m) == CachedSlot(m, "_clean_content", CleanContent(m))

(***************************************************************************)
(* The calls a user of the object makes.                                   *)
(***************************************************************************)
\* Message(**p), for the payloads of PS
Construct(PS) ==
    \E p \in PS : \E r \in {_update(Blank, p)} :
            /\ ~r.raised
            /\ self = r.self
            /\ data = p
            /\ last = "__init__"
            /\ ret = None

\* message._update(**p)
Update(p) ==
    \E r \in {_update(self, p)} :
        /\ self' = r.self
        /\ data' = IF r.raised THEN data ELSE p
        /\ last' = IF r.raised THEN "_update raised" ELSE "_update"
        /\ ret' = None

Read(read, name) ==
    \E r \in {read} :
        /\ self' = r.self
        /\ ret' = Some(r.value)
        /\ last' = name
        /\ UNCHANGED data

ReadRawMentions == Read(raw_mentions(self), "raw_mentions")
ReadRawChannelMentions == Read(raw_channel_mentions(self), "raw_channel_mentions")
ReadRawRoleMentions == Read(raw_role_mentions(self), "raw_role_mentions")
ReadCleanContent == Read(clean_content(self), "clean_content")

(***************************************************************************)
(* Payloads.  content is the concatenation of the tokens; the code reads   *)
(* content only.                                                           *)
(***************************************************************************)
Marker(open, id) == open \o id \o <<">">>
UserOpen == <<"<", "@">>
NickOpen == <<"<", "@", "!">>
RoleOpen == <<"<", "@", "&">>
ChannelOpen == <<"<", "#">>

SeqsUpTo(S, n) == UNION {[1..k -> S] : k \in 0..n}

Stubs(ids) == [n \in 1..Len(ids) |-> [id |-> ids[n]]]

Good1 == Some("2015-08-21T12:03:45.782000+00:00")
Good2 == Some("2015-08-21T12:03:46+00:00")
Malformed == Some("yesterday")

ServerChannel == [channel |-> Some(Server.channels[1]), channel_id |-> Some(Id1)]
PrivateChan == [channel |-> Some(PrivateChannel(Id2)), channel_id |-> Some(Id2)]
\* the caller passes an Object it made for an unknown channel
GivenObject == [channel |-> Some(Object(Id12)), channel_id |-> Some(Id12)]
\* no channel, and only its id known
OnlyChannelId == [channel |-> None, channel_id |-> Some(Id12)]
NoChannel == [channel |-> None, channel_id |-> None]

Payloads(tokseqs, chans, authors, mentions, roles, stamps, edits) ==
    { [tokens |-> ts, content |-> Flatten(ts),
       channel |-> c.channel, channel_id |-> c.channel_id,
       author |-> [id |-> a, username |-> <<"b", "o", "b">>],
       mentions |-> Stubs(ms), mention_roles |-> rs,
       timestamp |-> t, edited_timestamp |-> e] :
         ts \in tokseqs, c \in chans, a \in authors, ms \in mentions,
         rs \in roles, t \in stamps, e \in edits }

(***************************************************************************)
(* Spec: hydrations of changing content interleaved with reads of the      *)
(* four memoized accessors.                                                *)
(***************************************************************************)
LifeTokens == { Marker(ChannelOpen, Id1), Marker(NickOpen, Id2), Marker(RoleOpen, Id1) }

LifePayloads ==
    Payloads(SeqsUpTo(LifeTokens, MaxToks), {ServerChannel, PrivateChan}, {Id1},
             { <<Id2>> }, { <<Id1>> }, {Good1}, {None})

Init == Construct(LifePayloads)

Next ==
    \/ \E p \in LifePayloads : Update(p)
    \/ ReadRawMentions
    \/ ReadRawChannelMentions
    \/ ReadRawRoleMentions
    \/ ReadCleanContent

Spec == Init /\ [][Next]_vars

(***************************************************************************)
(* SpecChannel: hydrations over every kind of channel, with authors in and *)
(* out of the roster.                                                      *)
(***************************************************************************)
ChannelPayloads ==
    Payloads({ << >>, <<Marker(ChannelOpen, Id1), Marker(UserOpen, Id1)>> },
             {ServerChannel, PrivateChan, GivenObject, OnlyChannelId, NoChannel},
             {Id1, Id2, Id12}, { << >>, <<Id1>> }, { << >>, <<Id2>> }, {Good1}, {None})

InitChannel == Construct(ChannelPayloads)
NextChannel == \E p \in ChannelPayloads : Update(p)
SpecChannel == InitChannel /\ [][NextChannel]_vars

(***************************************************************************)
(* SpecMentions: hydrations into a server channel over the payload's       *)
(* "mentions" and "mention_roles" lists.                                   *)
(***************************************************************************)
MentionPayloads ==
    Payloads({ << >> }, {ServerChannel}, {Id1},
             SeqsUpTo({Id1, Id2, Id12}, MaxMentions), SeqsUpTo({Id2, Id12}, MaxMentions),
             {Good1}, {None})

InitMentions == Construct(MentionPayloads)
NextMentions == \E p \in MentionPayloads : Update(p)
SpecMentions == InitMentions /\ [][NextMentions]_vars

(***************************************************************************)
(* SpecTime: hydrations whose timestamps may be malformed, interleaved     *)
(* with reads.                                                             *)
(***************************************************************************)
TimePayloads ==
    Payloads({ << >>, <<Marker(ChannelOpen, Id1)>> }, {ServerChannel, PrivateChan}, {Id1},
             { <<Id1>> }, { <<Id1>> }, {Good1, Malformed}, {None, Good2, Malformed})

InitTime == Construct(TimePayloads)

NextTime ==
    \/ \E p \in TimePayloads : Update(p)
    \/ ReadRawMentions
    \/ ReadRawChannelMentions
    \/ ReadRawRoleMentions
    \/ ReadCleanContent

SpecTime == InitTime /\ [][NextTime]_vars

(***************************************************************************)
(* SpecClean: clean_content of a message constructed from any content over *)
(* CleanTokens, in a server channel and in a private one.                  *)
(***************************************************************************)
CleanTokens ==
    { Marker(UserOpen, Id1), Marker(NickOpen, Id1), Marker(UserOpen, Id2),
      Marker(UserOpen, Id12), Marker(RoleOpen, Id1), Marker(ChannelOpen, Id1),
      Marker(ChannelOpen, Id12), <<"@">> \o everyone, <<"@">> \o here,
      <<"h", "i", " ">>, <<"<", "@">> }

CleanPayloads ==
    Payloads(SeqsUpTo(CleanTokens, MaxToks), {ServerChannel, PrivateChan}, {Id1},
             { << >>, <<Id1>>, <<Id2, Id1>> }, { << >>, <<Id1>> }, {Good1}, {None})

InitClean == Construct(CleanPayloads)
NextClean == ReadCleanContent
SpecClean == InitClean /\ [][NextClean]_vars

(***************************************************************************)
(* What the claims speak of.                                               *)
(***************************************************************************)
InServerChannel == self.channel # None /\ self.channel[1].kind = "Channel"

\* the entities of a roster list that a list of ids names, in the order of
\* the ids, an id that names none left out
Named(roster, ids) ==
    LET known == SelectSeq(ids, LAMBDA id : \E n \in 1..Len(roster) : roster[n].id = id)
    IN  [n \in 1..Len(known) |-> CHOOSE e \in {roster[k] : k \in 1..Len(roster)} : e.id = known[n]]

Ids(entries) == [n \in 1..Len(entries) |-> entries[n].id]

UserIdsIn(text) == FindAll(text, UserOpen, TRUE)
ChannelIdsIn(text) == FindAll(text, ChannelOpen, FALSE)
RoleIdsIn(text) == FindAll(text, RoleOpen, FALSE)

\* what a user of the object can observe of it
Observable(m) ==
    [content |-> m.content, channel |-> m.channel, server |-> m.server,
     author |-> m.author, mentions |-> m.mentions,
     channel_mentions |-> m.channel_mentions, role_mentions |-> m.role_mentions,
     raw_mentions |-> raw_mentions(m).value,
     raw_channel_mentions |-> raw_channel_mentions(m).value,
     raw_role_mentions |-> raw_role_mentions(m).value,
     clean_content |-> clean_content(m).value]

\* how often the literal lit stands in text
Count(lit, text) == Cardinality({i \in 1..Len(text) : StartsAt(text, i, lit)})

AtEveryone == <<"@">> \o everyone
AtHere == <<"@">> \o here

\* the text clean_content shows for one token of the content
Defused(text) ==
    IF text = AtEveryone THEN <<"@", ZWSP>> \o everyone
    ELSE IF text = AtHere THEN <<"@", ZWSP>> \o here
    ELSE text

Shown(tok) ==
    LET chans   == {self.channel_mentions[n] : n \in 1..Len(self.channel_mentions)}
        members == {self.mentions[n] : n \in 1..Len(self.mentions)}
        roles   == {self.role_mentions[n] : n \in 1..Len(self.role_mentions)}
    IN  IF \E c \in chans : tok = Marker(ChannelOpen, c.id)
        THEN <<"#">> \o (CHOOSE c \in chans : tok = Marker(ChannelOpen, c.id)).name
        ELSE IF \E u \in members : tok \in {Marker(UserOpen, u.id), Marker(NickOpen, u.id)}
        THEN Defused(<<"@">> \o (CHOOSE u \in members :
                        tok \in {Marker(UserOpen, u.id), Marker(NickOpen, u.id)}).display_name)
        ELSE IF self.server # None /\ \E r \in roles : tok = Marker(RoleOpen, r.id)
        THEN Defused(<<"@">> \o (CHOOSE r \in roles : tok = Marker(RoleOpen, r.id)).name)
        ELSE Defused(tok)

Unresolved ==
    {Marker(ChannelOpen, id) : id \in {Id1, Id2, Id12} \ {c.id : c \in {self.channel_mentions[n] : n \in 1..Len(self.channel_mentions)}}}
    \cup {Marker(open, id) : open \in {UserOpen, NickOpen},
                             id \in {Id1, Id2, Id12} \ {u.id : u \in {self.mentions[n] : n \in 1..Len(self.mentions)}}}
    \cup {Marker(RoleOpen, id) : id \in {Id1, Id2, Id12} \ {r.id : r \in {self.role_mentions[n] : n \in 1..Len(self.role_mentions)}}}

(***************************************************************************)
(* The claims.                                                             *)
(***************************************************************************)

\* C1: whenever channel is private, the placeholder Object or absent, the
\* three resolved mention lists are empty.
C1_PrivateHasNoMentions ==
    ~InServerChannel =>
        /\ self.mentions = << >>
        /\ self.channel_mentions = << >>
        /\ self.role_mentions = << >>

\* C1's case: an in-place _update left the placeholder Object as channel;
\* the payload listed mentions and roles and the content holds markers.
C1_Witness ==
    /\ last = "_update"
    /\ self.channel = Some(Object(Id12))
    /\ data.channel = None
    /\ data.mentions # << >>
    /\ data.mention_roles # << >>
    /\ ChannelIdsIn(self.content) = <<Id1>>
    /\ self.mentions = << >> /\ self.channel_mentions = << >> /\ self.role_mentions = << >>

\* C2: after a hydration into a server channel, channel_mentions is the
\* list of the roster's channels named by the <#ID> markers of the content
\* that this hydration supplied, in the order of the markers.
C2_ChannelMentionsOfOwnContent ==
    InServerChannel =>
        self.channel_mentions = Named(Server.channels, ChannelIdsIn(data.content))

\* C3: when _update has returned, the four cache slots are empty, and a
\* read of a memoized accessor returns the value computed from the content
\* of the latest hydration, never one memoized before it.
C3_NoStaleMemo ==
    /\ self.content = data.content
    /\ last \in {"__init__", "_update"} =>
          /\ self._raw_mentions = None
          /\ self._raw_channel_mentions = None
          /\ self._raw_role_mentions = None
          /\ self._clean_content = None
    /\ self._raw_mentions \in {None, Some(UserIdsIn(data.content))}
    /\ self._raw_channel_mentions \in {None, Some(ChannelIdsIn(data.content))}
    /\ self._raw_role_mentions \in {None, Some(RoleIdsIn(data.content))}
    /\ self._clean_content \in {None, Some(CleanContent(self))}
    /\ last = "raw_mentions" => ret = Some(UserIdsIn(data.content))
    /\ last = "raw_channel_mentions" => ret = Some(ChannelIdsIn(data.content))
    /\ last = "raw_role_mentions" => ret = Some(RoleIdsIn(data.content))
    /\ last = "clean_content" => ret = Some(CleanContent(self))

\* C3's case: raw_channel_mentions had been read under an earlier content
\* (the hydration that followed resolved channel_mentions from it), and the
\* read after that hydration returns the ids of the new content.
C3_Witness ==
    /\ last = "raw_channel_mentions"
    /\ InServerChannel
    /\ Ids(self.channel_mentions) = <<Id1>>
    /\ data.content = Marker(NickOpen, Id2)
    /\ ret = Some(<< >>)
    /\ self._raw_mentions = Some(<<Id2>>)

\* C4: clean_content holds neither "@everyone" nor "@here".
C4_NoBroadcastLeft ==
    last = "clean_content" =>
        /\ Count(AtEveryone, ret[1]) = 0
        /\ Count(AtHere, ret[1]) = 0

\* C4's case: the content holds no broadcast token; "@everyone" and "@here"
\* arise from the names of a mentioned member and a mentioned role.
C4_Witness ==
    /\ last = "clean_content"
    /\ data.tokens = <<Marker(NickOpen, Id1), Marker(RoleOpen, Id1)>>
    /\ ret[1] = <<"@", ZWSP>> \o everyone \o <<"@", ZWSP>> \o here

\* C5: clean_content is the content with every marker of a channel in
\* channel_mentions replaced by #name, every <@id> and <@!id> of a member in
\* mentions by @display_name, every <@&id> of a role in role_mentions by
\* @name, the replacement text not scanned again, and the rest copied (up
\* to the defusing of the broadcast tokens).
C5_CleanContentByToken ==
    last = "clean_content" =>
        ret[1] = Flatten([n \in 1..Len(data.tokens) |-> Shown(data.tokens[n])])

\* C5's case: a resolved channel marker, then the marker of a member whose
\* display name reads like that channel marker.
C5_Witness ==
    /\ last = "clean_content"
    /\ data.tokens = <<Marker(ChannelOpen, Id1), Marker(UserOpen, Id2)>>
    /\ ret[1] = <<"#", "g", "e", "n", "@", "<", "#", "1", ">">>

\* C6: a marker whose target is not in the resolved lists stands in
\* clean_content as often as in content, and with no resolved mention at
\* all clean_content is the content but for the zero-width spaces.
C6_UnresolvedMarkersKept ==
    last = "clean_content" =>
        /\ \A mk \in Unresolved : Count(mk, ret[1]) >= Count(mk, self.content)
        /\ (self.mentions = << >> /\ self.channel_mentions = << >> /\ self.role_mentions = << >>)
              => SelectSeq(ret[1], LAMBDA c : c # ZWSP) = self.content

\* C6's case: a private message whose payload lists member 1 and whose
\* content holds that member's marker and a channel marker.
C6_Witness ==
    /\ last = "clean_content"
    /\ ~InServerChannel
    /\ data.mentions # << >>
    /\ self.content = Marker(UserOpen, Id1) \o Marker(ChannelOpen, Id1)
    /\ ret[1] = self.content

C8_RehydrationIdempotent ==
    [][(last' = "_update" /\ data' = data) => Observable(self') = Observable(self)]_vars

\* C9: author is the roster's member of the payload author's id exactly
\* when channel is a server channel and the roster has that member, and the
\* user built from the current payload otherwise; server is that channel's
\* server, and None otherwise.
C9_AuthorUpgrade ==
    LET member == Named(Server.members, <<data.author.id>>)
    IN  /\ self.server = IF InServerChannel THEN Some(Server) ELSE None
        /\ self.author = IF InServerChannel /\ member # << >>
                         THEN Some(member[1])
                         ELSE Some(User(data.author))

\* C9's case: a re-hydration into a server channel whose roster has the
\* payload's author.
C9_Witness ==
    /\ last = "_update"
    /\ InServerChannel
    /\ data.author.id = Id2
    /\ self.author = Some(Server.members[2])

\* C10: an _update that raises on the payload's timestamp leaves every
\* attribute and every memoized value as it was before the call.
C10_FailedUpdateChangesNothing ==
    [][last' = "_update raised" => self' = self]_vars

====
